---- MODULE Spec2Model ----
(***************************************************************************)
(* VoiceFlow session / resource controller.                                *)
(*                                                                         *)
(* The Python backend (src-pyloid/app_controller.py, services/             *)
(* transcription.py, services/model_manager.py) is described by the design *)
(* specification and by the architecture notes and code excerpts kept with *)
(* the frontend sources (CLAUDE.md, docs/profiling).  This module models   *)
(*   - SessionController      (hotkey activate / deactivate, worker)       *)
(*   - ModelLifecycleManager  (ensureLoaded, unload, idle timer, mutex)    *)
(*   - ModelDownloadManager   (single-flight, cancellable download)        *)
(* Time is relative: timerLeft counts the idle timer down, sinceUse counts *)
(* the time since the last completed transcription up.                     *)
(***************************************************************************)
EXTENDS Integers, Sequences, FiniteSets, TLC

\* ---------------------------------------------------------------- bounds
IdleTimeout == 2
MaxFired == 1
MaxChunks == 2
MaxEvents == 1
MaxSignals == 2

\* ------------------------------------------------------------- constants
Models == {"tiny", "base", "small"}
\* The (model id, device preference) pairs the settings take in the model.
Handle == {<<"tiny", "cpu">>, <<"tiny", "cuda">>, <<"base", "cpu">>}
NoHandle == <<"none", "none">>
Callers == {"session", "test"}
Unloaders == {"timer", "shutdown"}
\* Frontend callers of start_model_download (onboarding, settings, recovery).
Starters == {"rpc1", "rpc2"}
\* ... and the download modal of the settings page.
StartCallers == Starters \cup {"modal"}
NoTimer == 0 - 1
\* Exceptions a worker can have in flight (the payload is its request).
Errors == {"ModelLoadError", "TranscriptionError"}

VARIABLES
  state,      \* SessionController state: Idle / Recording / Loading / Transcribing
  sessions,   \* number of live RecordingSession objects
  capture,    \* AudioCaptureService is capturing
  events,     \* state events emitted since the last accepted activate
  errorShown, \* the last session ended with an error-state event
  audio,      \* what the running capture yields when it is stopped
  pastes,     \* paste invocations of the session in flight
  saves,      \* persistence invocations of the session in flight
  didLoad,    \* the worker of the session in flight began a model load
  pc,         \* position of each model-using worker thread
  req,        \* (modelId, devicePreference) each worker asked for
  mutex,      \* owner of the ModelLifecycleManager mutex, or "free"
  handles,    \* resident ModelHandles
  loading,    \* threads that are inside a model load
  evicting,   \* threads that are inside an eviction
  timerLeft,  \* idle timer: NoTimer, or the time left until it fires
  fired,      \* timer callbacks that passed the cancel check, not yet run
  sinceUse,   \* time since the last completed transcription, saturating
  lastLoaded, \* the handle of the last successful load
  loadCount,  \* successful loads of lastLoaded since the last unload / failure
  dlJobs,     \* number of live DownloadJobs (download worker threads)
  dlLock,     \* owner of the single-flight guard, or "free"
  dlPc,       \* position of the download worker
  dlModel,    \* model the running job downloads
  dlCancel,   \* cooperative cancellation flag of the job
  dlChunks,   \* chunks the worker has fetched
  dlAfterCancel, \* chunks fetched after the flag was set
  dlSnapshot, \* terminal part of the progress snapshot
  dlReply,    \* position / reply of each start() caller
  dlArg,      \* model each start() caller asked for
  dlCached,   \* models in the local cache
  dlEvents,   \* download-complete events on their way to the frontend
  settingsModel,     \* SettingsTab: settings.model
  pendingModel,      \* SettingsTab: pendingModel
  downloadModalOpen, \* SettingsTab: downloadModalOpen
  progState,         \* ModelDownloadProgress of the modal: state, or "unmounted"
  signals,      \* Event Bridge: queued signal emissions, oldest first
  presentation, \* presentation state owned by the main (consumer) thread
  writer,       \* thread of the last write to the presentation state
  isCapturing,  \* HotkeyCapture: isCapturing
  pressedKeys,  \* HotkeyCapture: pressedKeys, in insertion order
  hkError,      \* HotkeyCapture: error
  hkValue,      \* HotkeyCapture: the hotkey last passed to onChange
  hkLast,        \* HotkeyCapture: the last event handled and its validation
  historyRows,  \* database: ids of the rows of the history table
  audioFiles,  \* disk: ids of the rows whose audio file exists
  bdIds,  \* bulk_delete_history: history_ids of the last call
  bdResult,  \* bulk_delete_history: how the last call ended
  route,  \* App: "loading" until checkStartup chose onboarding or dashboard
  modelMissing,  \* App: modelMissing, the recovery modal is open
  step,  \* Onboarding: step
  wizardModel,  \* Onboarding: model
  isDownloading,  \* Onboarding: isDownloading
  mdpState,  \* ModelDownloadProgress: state, or "unmounted"
  hasStarted,  \* ModelDownloadProgress: hasStarted.current
  startCalls,  \* startModelDownload calls of the current download attempt
  callbacks,  \* onComplete / onCancel invocations of the current attempt
  cancelClicked,  \* Cancel was clicked during the current attempt
  settings,  \* SettingsTab: settings, the displayed values
  backendSettings,  \* settings persisted by the backend
  inflight,  \* updateSetting / handleDeviceChange calls awaiting their RPC
  audioMounted,  \* StepAudio is mounted (the `mounted` flag of its effect)
  startTimer,  \* StepAudio: the 100 ms timer of the mount effect
  startPc,  \* StepAudio: position of startRecording
  devPc,  \* StepAudio: position of handleDeviceChange
  stops,  \* stopTestRecording calls of the cleanup not yet served
  testRecording,  \* backend: a test recording is active
  isListening,  \* StepAudio: isListening
  history,  \* HistoryTab / HistoryPage: the list shown, named by its query
  search,  \* HistoryTab / HistoryPage: search
  debounce,  \* the 500 ms timer of the search effect
  pendingLoads,  \* queries of the getHistory calls in flight, in call order
  loadFailed  \* a getHistory call has failed

sessionVars == <<state, sessions, capture, events, errorShown, audio, pastes,
                 saves, didLoad>>
workerVars == <<pc, req>>
modelVars == <<mutex, handles, loading, evicting, lastLoaded, loadCount>>
timerVars == <<timerLeft, fired, sinceUse>>
dlVars == <<dlJobs, dlLock, dlPc, dlModel, dlCancel, dlChunks, dlAfterCancel,
           dlSnapshot, dlReply, dlArg, dlCached, dlEvents>>
tabVars == <<settingsModel, pendingModel, downloadModalOpen, progState>>
bridgeVars == <<signals, presentation, writer>>
coreVars == <<sessionVars, workerVars, modelVars, timerVars, dlVars, tabVars,
              bridgeVars>>
hotkeyVars == <<isCapturing, pressedKeys, hkError, hkValue, hkLast>>
bulkVars == <<historyRows, audioFiles, bdIds, bdResult>>
appVars ==
  <<route,
    modelMissing,
    step,
    wizardModel,
    isDownloading,
    mdpState,
    hasStarted,
    startCalls,
    callbacks,
    cancelClicked>>
saveVars == <<settings, backendSettings, inflight>>
stepAudioVars ==
  <<audioMounted,
    startTimer,
    startPc,
    devPc,
    stops,
    testRecording,
    isListening>>
historyVars == <<history, search, debounce, pendingLoads, loadFailed>>
uiVars == <<hotkeyVars, bulkVars, appVars, saveVars, stepAudioVars, historyVars>>
vars == <<coreVars, uiVars>>

\* The settings of the model: two plain ones and the device; two values each.
SettingKeys == {"language", "theme", "device"}
SettingValues == {"v0", "v1"}

Min(a, b) == IF a < b THEN a ELSE b

\* ------------------------------------------------------------------ Init
SessionInit ==
  /\ state = "Idle"
  /\ sessions = 0
  /\ capture = FALSE
  /\ events = <<>>
  /\ errorShown = FALSE
  /\ audio = "none"
  /\ pastes = 0
  /\ saves = 0
  /\ didLoad = FALSE
  /\ pc = [c \in Callers |-> "idle"]
  /\ req = [c \in Callers |-> <<"tiny", "cpu">>]

\* The model is not loaded on startup: TranscriptionService._model is None.
ModelInit ==
  /\ mutex = "free"
  /\ handles = {}
  /\ loading = {}
  /\ evicting = {}
  /\ lastLoaded = NoHandle
  /\ loadCount = 0
  /\ timerLeft = NoTimer
  /\ fired = 0
  /\ sinceUse = IdleTimeout

DownloadInit ==
  /\ dlJobs = 0
  /\ dlLock = "free"
  /\ dlPc = "none"
  /\ dlModel = "none"
  /\ dlCancel = FALSE
  /\ dlChunks = 0
  /\ dlAfterCancel = 0
  /\ dlSnapshot = "none"
  /\ dlReply = [r \in StartCallers |-> "none"]
  /\ dlArg = [r \in StartCallers |-> "tiny"]
  /\ dlCached = {}
  /\ dlEvents = <<>>

\* SettingsTab after loadSettings, no modal open.
SettingsInit ==
  /\ settingsModel = "tiny"
  /\ pendingModel = "none"
  /\ downloadModalOpen = FALSE
  /\ progState = "unmounted"

\* The popup is idle, nothing is queued.
BridgeInit ==
  /\ signals = <<>>
  /\ presentation = [popup |-> "idle", amplitude |-> "none",
                     download |-> "none", model |-> "none"]
  /\ writer = "none"

\* HotkeyCapture as mounted: not capturing, the default hotkey as value.
HotkeyInit ==
  /\ isCapturing = FALSE
  /\ pressedKeys = <<>>
  /\ hkError = "none"
  /\ hkValue = <<"ctrl", "win">>
  /\ hkLast = <<"none", "none">>

\* A history of three entries; the third was saved without audio.
BulkInit ==
  /\ historyRows = {1, 2, 3}
  /\ audioFiles = {1, 2}
  /\ bdIds = {}
  /\ bdResult = "none"

\* The app while checkStartup runs: nothing is mounted yet.
AppInit ==
  /\ route = "loading"
  /\ modelMissing = FALSE
  /\ step = 0
  /\ wizardModel = "tiny"
  /\ isDownloading = FALSE
  /\ mdpState = "unmounted"
  /\ hasStarted = FALSE
  /\ startCalls = 0
  /\ callbacks = 0
  /\ cancelClicked = FALSE

\* SettingsTab after loadSettings: the display shows the persisted values.
SaveInit ==
  /\ settings = [k \in SettingKeys |-> "v0"]
  /\ backendSettings = [k \in SettingKeys |-> "v0"]
  /\ inflight = <<>>

\* The wizard before the audio step: nothing mounted, nothing recording.
StepAudioInit ==
  /\ audioMounted = FALSE
  /\ startTimer = "none"
  /\ startPc = "none"
  /\ devPc = "none"
  /\ stops = 0
  /\ testRecording = FALSE
  /\ isListening = FALSE

\* The page right after mount: the list is empty, the unfiltered load of the
\* mount effect is in flight and the search effect has armed its timer.
HistoryInit ==
  /\ history = "empty"
  /\ search = ""
  /\ debounce = "armed"
  /\ pendingLoads = <<"">>
  /\ loadFailed = FALSE

UiInit == HotkeyInit /\ BulkInit /\ AppInit /\ SaveInit /\ StepAudioInit /\ HistoryInit

Init ==
  /\ SessionInit /\ ModelInit /\ DownloadInit /\ SettingsInit /\ BridgeInit
  /\ UiInit

\* ------------------------------------------------- ModelLifecycleManager
\* The single mutex of the manager: thread t may enter when nobody holds it.
CanLockLoaderBug(t) == t \in Callers \/ mutex = "free"
CanLockUnloaderBug(t) == t \in Unloaders \/ mutex = "free"
CanLock(t) == mutex = "free"

\* The resident handle already matches (modelId, devicePreference).
MatchesNever(c) == FALSE
Matches(c) == req[c] \in handles

\* is_model_loaded(): some model is in memory.
ModelResident == handles # {}

\* ensureLoaded evicts the current handle (if any) before it loads.
AfterEvictKeep == handles
AfterEvict == {}

\* A failed load leaves the resident handle cleared.
AfterFailedLoadPartial(c) == {req[c]}
AfterFailedLoad(c) == {}

\* Bookkeeping: successful loads of the same handle with no unload() and no
\* failed load in between (saturating at 2).
NoteLoaded(h0) ==
  /\ lastLoaded' = h0
  /\ loadCount' = IF lastLoaded = h0 THEN Min(2, loadCount + 1) ELSE 1

NoteCleared ==
  /\ lastLoaded' = NoHandle
  /\ loadCount' = 0

\* ensureLoaded, entry: take the mutex and cancel the idle timer first.
EnsureLoadedEnter(c) ==
  /\ pc[c] = "ensure"
  /\ CanLock(c)
  /\ mutex' = c
  /\ timerLeft' = NoTimer
  /\ pc' = [pc EXCEPT ![c] = "locked"]
  /\ UNCHANGED <<sessionVars, req, handles, loading, evicting, lastLoaded,
                 loadCount, fired, sinceUse, dlVars, tabVars,
                 bridgeVars, uiVars>>

\* ensureLoaded, the already-loaded check: a hit returns without reloading.
EnsureLoadedCheck(c) ==
  /\ pc[c] = "locked"
  /\ IF Matches(c)
       THEN /\ mutex' = "free"
            /\ pc' = [pc EXCEPT ![c] = "ready"]
       ELSE /\ mutex' = mutex
            /\ pc' = [pc EXCEPT ![c] = "evict"]
  /\ UNCHANGED <<sessionVars, req, handles, loading, evicting, lastLoaded,
                 loadCount, timerVars, dlVars, tabVars,
                 bridgeVars, uiVars>>

\* ensureLoaded, miss: evict the current handle, if any.
EvictCurrent(c) ==
  /\ pc[c] = "evict"
  /\ handles' = AfterEvict
  /\ pc' = [pc EXCEPT ![c] = "load"]
  /\ UNCHANGED <<sessionVars, req, mutex, loading, evicting, lastLoaded, loadCount,
                 timerVars, dlVars, tabVars,
                 bridgeVars, uiVars>>

\* ensureLoaded, miss: the load of the requested model begins.
LoadBegin(c) ==
  /\ pc[c] = "load"
  /\ loading' = loading \cup {c}
  /\ pc' = [pc EXCEPT ![c] = "loading"]
  /\ didLoad' = IF c = "session" THEN TRUE ELSE didLoad
  /\ UNCHANGED <<state, sessions, capture, events, errorShown, audio, pastes,
                 saves, req, mutex, handles, evicting, lastLoaded,
                 loadCount, timerVars, dlVars, tabVars,
                 bridgeVars, uiVars>>

\* The load succeeds: the handle becomes resident and the mutex is released.
LoadOk(c) ==
  /\ pc[c] = "loading"
  /\ handles' = handles \cup {req[c]}
  /\ NoteLoaded(req[c])
  /\ loading' = loading \ {c}
  /\ mutex' = IF mutex = c THEN "free" ELSE mutex
  /\ pc' = [pc EXCEPT ![c] = "ready"]
  /\ UNCHANGED <<sessionVars, req, evicting, timerVars, dlVars, tabVars,
                 bridgeVars, uiVars>>

\* The load fails: ModelLoadError(model id, device, cause); handle cleared.
LoadFail(c) ==
  /\ pc[c] = "loading"
  /\ handles' = AfterFailedLoad(c)
  /\ loading' = loading \ {c}
  /\ mutex' = IF mutex = c THEN "free" ELSE mutex
  /\ NoteCleared
  /\ pc' = [pc EXCEPT ![c] = "ModelLoadError"]
  /\ UNCHANGED <<sessionVars, req, evicting, timerVars, dlVars, tabVars,
                 bridgeVars, uiVars>>

\* startIdleTimer: cancel any existing timer, then schedule the eviction.
StartIdleTimer(c) ==
  /\ pc[c] = "post"
  /\ CanLock(c)
  /\ timerLeft' = IdleTimeout
  /\ pc' = [pc EXCEPT ![c] = "finish"]
  /\ UNCHANGED <<sessionVars, req, modelVars, fired, sinceUse, dlVars, tabVars,
                 bridgeVars, uiVars>>

\* Time passes: the pending timer counts down, the time since use counts up.
Tick ==
  /\ timerLeft' = IF timerLeft > 0 THEN timerLeft - 1 ELSE timerLeft
  /\ sinceUse' = Min(IdleTimeout, sinceUse + 1)
  /\ UNCHANGED <<sessionVars, workerVars, modelVars, fired, dlVars, tabVars,
                 bridgeVars, uiVars>>

\* The timer thread wakes up, finds itself not cancelled and commits to
\* _on_idle_timeout (threading.Timer: the cancel check precedes the call).
TimerFire ==
  /\ timerLeft = 0
  /\ fired < MaxFired
  /\ timerLeft' = NoTimer
  /\ fired' = fired + 1
  /\ UNCHANGED <<sessionVars, workerVars, modelVars, sinceUse, dlVars, tabVars,
                 bridgeVars, uiVars>>

\* unload(), called by the idle timer callback or by shutdown: take the mutex.
UnloadBegin(u) ==
  /\ u \notin evicting
  /\ u = "timer" => fired > 0
  /\ CanLock(u)
  /\ mutex' = u
  /\ evicting' = evicting \cup {u}
  /\ UNCHANGED <<sessionVars, workerVars, handles, loading, lastLoaded,
                 loadCount, timerVars, dlVars, tabVars,
                 bridgeVars, uiVars>>

\* unload(): free the resident handle (no-op if nothing is loaded).
UnloadEnd(u) ==
  /\ u \in evicting
  /\ handles' = {}
  /\ IF handles # {} THEN NoteCleared ELSE UNCHANGED <<lastLoaded, loadCount>>
  /\ evicting' = evicting \ {u}
  /\ mutex' = IF mutex = u THEN "free" ELSE mutex
  /\ fired' = IF u = "timer" THEN fired - 1 ELSE fired
  /\ UNCHANGED <<sessionVars, workerVars, loading, timerLeft, sinceUse, dlVars, tabVars,
                 bridgeVars, uiVars>>

\* ----------------------------------------------------- SessionController
\* Outcomes of a capture: too short / too quiet, enough speech, or the
\* device failing mid-capture; "refused" is a device that cannot start.
Captures == {"short", "speech", "failed"}

\* onActivate is accepted only when no session is in flight.
CanActivateNotRecording == state # "Recording"
CanActivate == state = "Idle"

\* onActivate: start the capture, create the RecordingSession, go Recording;
\* while Recording / Loading / Transcribing the call is rejected and logged.
\* A capture that cannot start raises a DeviceError: error event, still Idle.
OnActivate ==
  /\ IF CanActivate
       THEN \E a \in Captures \cup {"refused"} :
              IF a = "refused"
                THEN /\ errorShown' = TRUE
                     /\ events' = <<>>
                     /\ UNCHANGED <<capture, sessions, state, audio>>
                ELSE /\ capture' = TRUE
                     /\ audio' = a
                     /\ sessions' = sessions + 1
                     /\ state' = "Recording"
                     /\ events' = <<"Recording">>
                     /\ errorShown' = FALSE
       ELSE UNCHANGED <<capture, sessions, state, events, errorShown, audio>>
  /\ UNCHANGED <<pastes, saves, didLoad, workerVars, modelVars, timerVars, dlVars, tabVars,
                 bridgeVars, uiVars>>

\* onDeactivate matches a prior accepted onActivate whose capture still runs.
HasMatchingActivateLoose == state = "Recording"
HasMatchingActivate == state = "Recording" /\ capture

\* The buffer passes the minimum duration / energy threshold.
AboveThresholdAlways == TRUE
AboveThreshold == audio = "speech"

\* The session leaves the controller: back to Idle, RecordingSession destroyed.
ToIdleKeepSession(c) ==
  IF c = "session"
    THEN /\ state' = "Idle"
         /\ events' = Append(events, "Idle")
         /\ UNCHANGED <<sessions, pastes, saves, didLoad>>
    ELSE UNCHANGED <<state, sessions, events, pastes, saves, didLoad>>
ToIdle(c) ==
  IF c = "session"
    THEN /\ state' = "Idle"
         /\ sessions' = sessions - 1
         /\ events' = Append(events, "Idle")
         /\ pastes' = 0
         /\ saves' = 0
         /\ didLoad' = FALSE
    ELSE UNCHANGED <<state, sessions, events, pastes, saves, didLoad>>

\* An exception caught at the controller boundary ends the session like a
\* success does, and an error-state event is emitted.
ErrorStuck(c) ==
  /\ errorShown' = IF c = "session" THEN TRUE ELSE errorShown
  /\ UNCHANGED <<state, sessions, events, pastes, saves, didLoad>>
ErrorToIdle(c) ==
  /\ ToIdle(c)
  /\ errorShown' = IF c = "session" THEN TRUE ELSE errorShown

\* onDeactivate: stop the capture and take the buffer.  Below the minimum
\* duration / energy the session is discarded; otherwise the worker is
\* spawned with the model id and device preference read from the settings.
OnDeactivate ==
  /\ UNCHANGED <<modelVars, timerVars, dlVars, tabVars,
                 bridgeVars, uiVars>>
  /\ IF ~HasMatchingActivate
       THEN UNCHANGED <<sessionVars, workerVars>>
       ELSE /\ capture' = FALSE
            /\ audio' = "none"
            /\ IF audio = "failed"
                 THEN /\ ErrorToIdle("session")
                      /\ UNCHANGED workerVars
                 ELSE IF AboveThreshold
                   THEN /\ \E h \in Handle : req' = [req EXCEPT !["session"] = h]
                        /\ pc' = [pc EXCEPT !["session"] = "check"]
                        /\ UNCHANGED <<sessions, state, events, errorShown,
                                       pastes, saves, didLoad>>
                   ELSE /\ ToIdle("session")
                        /\ UNCHANGED <<errorShown, workerVars>>

\* stop_test_recording (onboarding) also uses the lazy loading: a second
\* thread that calls ensureLoaded and transcribe.
StopTestRecording ==
  /\ pc["test"] = "idle"
  /\ \E h \in Handle : req' = [req EXCEPT !["test"] = h]
  /\ pc' = [pc EXCEPT !["test"] = "ensure"]
  /\ UNCHANGED <<sessionVars, modelVars, timerVars, dlVars, tabVars,
                 bridgeVars, uiVars>>

\* Worker: is a model loaded?  If not, trigger the loading indicator.
CheckLoaded ==
  /\ pc["session"] = "check"
  /\ IF ~ModelResident
       THEN /\ state' = "Loading"
            /\ events' = Append(events, "Loading")
       ELSE UNCHANGED <<state, events>>
  /\ pc' = [pc EXCEPT !["session"] = "ensure"]
  /\ UNCHANGED <<sessions, capture, errorShown, audio, pastes, saves, didLoad,
                 req, modelVars, timerVars, dlVars, tabVars,
                 bridgeVars, uiVars>>

\* Worker: transcribe() begins; the use of the handle holds the mutex.  With
\* no model resident (evicted since ensureLoaded returned) it raises.
TranscribeBegin(c) ==
  /\ pc[c] = "ready"
  /\ CanLock(c)
  /\ IF ModelResident
       THEN /\ mutex' = c
            /\ pc' = [pc EXCEPT ![c] = "transcribing"]
            /\ IF c = "session"
                 THEN /\ state' = "Transcribing"
                      /\ events' = Append(events, "Transcribing")
                 ELSE UNCHANGED <<state, events>>
       ELSE /\ pc' = [pc EXCEPT ![c] = "TranscriptionError"]
            /\ UNCHANGED <<mutex, state, events>>
  /\ UNCHANGED <<sessions, capture, errorShown, audio, pastes, saves, didLoad,
                 req, handles, loading, evicting, lastLoaded, loadCount,
                 timerVars, dlVars, tabVars,
                 bridgeVars, uiVars>>

\* Worker: the transcription completes (it is never cancelled); the session
\* worker hands the text to the paste and to the persistence collaborator.
TranscribeOk(c) ==
  /\ pc[c] = "transcribing"
  /\ mutex' = IF mutex = c THEN "free" ELSE mutex
  /\ sinceUse' = 0
  /\ pastes' = IF c = "session" THEN pastes + 1 ELSE pastes
  /\ saves' = IF c = "session" THEN saves + 1 ELSE saves
  /\ pc' = [pc EXCEPT ![c] = "post"]
  /\ UNCHANGED <<state, sessions, capture, events, errorShown, audio, didLoad,
                 req, handles, loading, evicting, lastLoaded, loadCount,
                 timerLeft, fired, dlVars, tabVars,
                 bridgeVars, uiVars>>

\* Worker: inference fails with a TranscriptionError.
TranscribeFail(c) ==
  /\ pc[c] = "transcribing"
  /\ mutex' = IF mutex = c THEN "free" ELSE mutex
  /\ pc' = [pc EXCEPT ![c] = "TranscriptionError"]
  /\ UNCHANGED <<sessionVars, req, handles, loading, evicting, lastLoaded,
                 loadCount, timerVars, dlVars, tabVars,
                 bridgeVars, uiVars>>

\* Worker: result handed over, idle timer started: back to Idle.
Finish(c) ==
  /\ pc[c] = "finish"
  /\ ToIdle(c)
  /\ pc' = [pc EXCEPT ![c] = "idle"]
  /\ UNCHANGED <<capture, errorShown, audio, req, modelVars, timerVars, dlVars, tabVars,
                 bridgeVars, uiVars>>

\* Worker: an exception is caught at the controller boundary: error event, Idle.
Fail(c) ==
  /\ pc[c] \in Errors
  /\ ErrorToIdle(c)
  /\ pc' = [pc EXCEPT ![c] = "idle"]
  /\ UNCHANGED <<capture, audio, req, modelVars, timerVars, dlVars, tabVars,
                 bridgeVars, uiVars>>

\* ------------------------------------------------------- specifications
SessionNext ==
  \/ OnActivate
  \/ OnDeactivate
  \/ StopTestRecording
  \/ CheckLoaded
  \/ \E c \in Callers : EnsureLoadedEnter(c)
  \/ \E c \in Callers : EnsureLoadedCheck(c)
  \/ \E c \in Callers : EvictCurrent(c)
  \/ \E c \in Callers : LoadBegin(c)
  \/ \E c \in Callers : LoadOk(c)
  \/ \E c \in Callers : LoadFail(c)
  \/ \E c \in Callers : TranscribeBegin(c)
  \/ \E c \in Callers : TranscribeOk(c)
  \/ \E c \in Callers : TranscribeFail(c)
  \/ \E c \in Callers : StartIdleTimer(c)
  \/ \E c \in Callers : Finish(c)
  \/ \E c \in Callers : Fail(c)
  \/ Tick
  \/ TimerFire
  \/ \E u \in Unloaders : UnloadBegin(u)
  \/ \E u \in Unloaders : UnloadEnd(u)

Spec == Init /\ [][SessionNext]_vars

\* Scheduling.  The thread that holds the manager's mutex takes its next
\* step (a load, a transcription and an unload end, one way or the other).
HolderStep ==
  \/ \E c \in Callers :
       \/ EnsureLoadedCheck(c) \/ EvictCurrent(c) \/ LoadBegin(c)
       \/ LoadOk(c) \/ LoadFail(c)
       \/ TranscribeOk(c) \/ TranscribeFail(c)
  \/ \E u \in Unloaders : UnloadEnd(u)

\* The session worker takes the steps that wait for nothing.
WorkerFreeStep == CheckLoaded \/ Finish("session") \/ Fail("session")

\* The session worker's calls that wait for the mutex: they return when the
\* mutex is released again and again (ensureLoaded, transcribe and
\* startIdleTimer return or raise).
WorkerLockStep ==
  \/ EnsureLoadedEnter("session")
  \/ TranscribeBegin("session")
  \/ StartIdleTimer("session")

SpecLive ==
  /\ Spec
  /\ WF_vars(HolderStep)
  /\ WF_vars(WorkerFreeStep)
  /\ SF_vars(WorkerLockStep)

\* -------------------------------------------------- ModelDownloadManager
\* The single-flight guard: caller r may enter start() when nobody is in it.
DlCanLockUnguarded(r) == TRUE
DlCanLock(r) == dlLock = "free"

\* start(modelId), entry.
StartEnter(r) ==
  /\ dlReply[r] = "none"
  /\ DlCanLock(r)
  /\ dlLock' = r
  /\ \E m \in Models : dlArg' = [dlArg EXCEPT ![r] = m]
  /\ dlReply' = [dlReply EXCEPT ![r] = "entered"]
  /\ UNCHANGED <<sessionVars, workerVars, modelVars, timerVars, bridgeVars, uiVars, tabVars, dlJobs,
                 dlPc, dlModel, dlCancel, dlChunks, dlAfterCancel, dlSnapshot,
                 dlCached, dlEvents>>

\* The requested model is in the cache already: start() has nothing to do
\* (the frontend completes at once on alreadyCached).
IsCached(r) == dlArg[r] \in dlCached

\* start(modelId): cached model / job already running / nothing running.
StartCheck(r) ==
  /\ dlReply[r] = "entered"
  /\ IF IsCached(r)
       THEN /\ dlReply' = [dlReply EXCEPT ![r] = "alreadyCached"]
            /\ dlLock' = IF dlLock = r THEN "free" ELSE dlLock
       ELSE IF dlJobs > 0
         THEN /\ dlReply' = [dlReply EXCEPT ![r] = "alreadyRunning"]
              /\ dlLock' = IF dlLock = r THEN "free" ELSE dlLock
         ELSE /\ dlReply' = [dlReply EXCEPT ![r] = "spawning"]
              /\ dlLock' = dlLock
  /\ UNCHANGED <<sessionVars, workerVars, modelVars, timerVars, bridgeVars, uiVars, tabVars, dlJobs,
                 dlPc, dlModel, dlCancel, dlChunks, dlAfterCancel, dlSnapshot,
                 dlArg, dlCached, dlEvents>>

\* start(modelId): spawn the background worker with a fresh job (the previous
\* terminal result, an error message included, is cleared).
StartSpawn(r) ==
  /\ dlReply[r] = "spawning"
  /\ dlJobs' = dlJobs + 1
  /\ dlPc' = "check"
  /\ dlModel' = dlArg[r]
  /\ dlCancel' = FALSE
  /\ dlChunks' = 0
  /\ dlAfterCancel' = 0
  /\ dlSnapshot' = "none"
  /\ dlReply' = [dlReply EXCEPT ![r] = "started"]
  /\ dlLock' = IF dlLock = r THEN "free" ELSE dlLock
  /\ UNCHANGED <<sessionVars, workerVars, modelVars, timerVars, bridgeVars, uiVars, tabVars, dlArg,
                 dlCached, dlEvents>>

\* The RPC returns its reply to the frontend; the caller may call again.
StartReturn(r) ==
  /\ dlReply[r] \in {"started", "alreadyRunning", "alreadyCached"}
  /\ dlReply' = [dlReply EXCEPT ![r] = "none"]
  /\ UNCHANGED <<sessionVars, workerVars, modelVars, timerVars, bridgeVars, uiVars, tabVars, dlJobs,
                 dlLock, dlPc, dlModel, dlCancel, dlChunks, dlAfterCancel,
                 dlSnapshot, dlArg, dlCached, dlEvents>>

\* cancel(): set the cooperative flag (CancelToken) of the running job.
CancelJob ==
  /\ dlJobs > 0
  /\ ~dlCancel
  /\ dlCancel' = TRUE
  /\ UNCHANGED <<dlJobs, dlLock, dlPc, dlModel, dlChunks, dlAfterCancel,
                 dlSnapshot, dlReply, dlArg, dlCached, dlEvents>>

\* cancelModelDownload() called by some frontend component.
Cancel ==
  /\ CancelJob
  /\ UNCHANGED <<sessionVars, workerVars, modelVars, timerVars, bridgeVars, uiVars, tabVars>>

\* The job ends with a terminal snapshot, and the download-complete event
\* {model, success | cancelled | error} is sent to the frontend.
DlTerminal(result) ==
  /\ Len(dlEvents) < MaxEvents
  /\ dlSnapshot' = result
  /\ dlJobs' = dlJobs - 1
  /\ dlPc' = "none"
  /\ dlEvents' = Append(dlEvents, <<dlModel, result>>)

\* Worker, between chunks: abort when the flag is set (partial data is
\* cleaned up), otherwise go on with the next chunk or with the completion.
DlCheckCancel ==
  /\ dlPc = "check"
  /\ IF dlCancel
       THEN /\ DlTerminal("cancelled")
            /\ dlChunks' = 0
       ELSE /\ dlPc' = IF dlChunks = MaxChunks THEN "finalize" ELSE "fetch"
            /\ UNCHANGED <<dlSnapshot, dlJobs, dlChunks, dlEvents>>
  /\ UNCHANGED <<sessionVars, workerVars, modelVars, timerVars, bridgeVars, uiVars, tabVars, dlLock,
                 dlModel, dlCancel, dlAfterCancel, dlReply, dlArg, dlCached>>

\* Worker: one chunk arrives.
DlFetchChunk ==
  /\ dlPc = "fetch"
  /\ dlChunks' = dlChunks + 1
  /\ dlAfterCancel' = IF dlCancel THEN dlAfterCancel + 1 ELSE dlAfterCancel
  /\ dlPc' = "check"
  /\ UNCHANGED <<sessionVars, workerVars, modelVars, timerVars, bridgeVars, uiVars, tabVars, dlJobs,
                 dlLock, dlModel, dlCancel, dlSnapshot, dlReply, dlArg, dlCached,
                 dlEvents>>

\* What a failed job leaves in the snapshot: the DownloadError message.
FailureResultLost == "none"
FailureResult == "error"

\* Worker: network / disk failure: DownloadError, surfaced in the snapshot.
DlFetchFail ==
  /\ dlPc = "fetch"
  /\ DlTerminal(FailureResult)
  /\ UNCHANGED <<sessionVars, workerVars, modelVars, timerVars, bridgeVars, uiVars, tabVars, dlLock,
                 dlModel, dlCancel, dlChunks, dlAfterCancel, dlReply, dlArg,
                 dlCached>>

\* Worker: all chunks are there: the model is cached, the job succeeded.
DlComplete ==
  /\ dlPc = "finalize"
  /\ DlTerminal("success")
  /\ dlCached' = dlCached \cup {dlModel}
  /\ UNCHANGED <<sessionVars, workerVars, modelVars, timerVars, bridgeVars, uiVars, tabVars, dlLock,
                 dlModel, dlCancel, dlChunks, dlAfterCancel, dlReply, dlArg>>

\* clear_model_cache (settings): the cached models are deleted.
ClearModelCache ==
  /\ dlJobs = 0
  /\ dlCached # {}
  /\ dlCached' = {}
  /\ UNCHANGED <<sessionVars, workerVars, modelVars, timerVars, bridgeVars, uiVars, tabVars, dlJobs,
                 dlLock, dlPc, dlModel, dlCancel, dlChunks, dlAfterCancel,
                 dlSnapshot, dlReply, dlArg, dlEvents>>

\* ------------------------------------------- SettingsTab / download modal
\* updateSetting("model", m): the new value is shown and saved; when the
\* save fails the shown settings are reverted.
UpdateModelSetting(m) ==
  \E saved \in BOOLEAN : settingsModel' = IF saved THEN m ELSE settingsModel

\* handleDownloadCancel: the modal closes, the settings stay as they are.
CloseDownloadModal ==
  /\ downloadModalOpen' = FALSE
  /\ pendingModel' = "none"
  /\ progState' = "unmounted"

\* handleDownloadComplete(success): a successful download makes the pending
\* model the model setting; the modal closes either way.
HandleDownloadComplete(success) ==
  /\ IF success /\ pendingModel # "none"
       THEN UpdateModelSetting(pendingModel)
       ELSE UNCHANGED settingsModel
  /\ CloseDownloadModal

\* handleModelChange(newModel): a cached model is set at once, for any other
\* model the download modal opens; a failing getModelInfo changes nothing.
HandleModelChange(m) ==
  /\ ~downloadModalOpen
  /\ m # settingsModel
  /\ \E info \in {"cached", "notCached", "failed"} :
       /\ info = "cached" => m \in dlCached
       /\ info = "notCached" => m \notin dlCached
       /\ CASE info = "cached" ->
                 /\ UpdateModelSetting(m)
                 /\ UNCHANGED <<pendingModel, downloadModalOpen, progState>>
            [] info = "notCached" ->
                 /\ pendingModel' = m
                 /\ downloadModalOpen' = TRUE
                 /\ progState' = "idle"
                 /\ UNCHANGED settingsModel
            [] OTHER -> UNCHANGED tabVars
  /\ UNCHANGED <<sessionVars, workerVars, modelVars, timerVars, bridgeVars, uiVars, dlVars>>

\* ModelDownloadProgress.startDownload (auto-start of the mounted modal):
\* state downloading, api.startModelDownload(modelName) is sent.
StartDownload ==
  /\ progState = "idle"
  /\ dlReply["modal"] = "none"
  /\ DlCanLock("modal")
  /\ progState' = "downloading"
  /\ dlLock' = "modal"
  /\ dlArg' = [dlArg EXCEPT !["modal"] = pendingModel]
  /\ dlReply' = [dlReply EXCEPT !["modal"] = "entered"]
  /\ UNCHANGED <<sessionVars, workerVars, modelVars, timerVars, bridgeVars, uiVars, settingsModel,
                 pendingModel, downloadModalOpen, dlJobs, dlPc, dlModel,
                 dlCancel, dlChunks, dlAfterCancel, dlSnapshot, dlCached,
                 dlEvents>>

\* startDownload, after the await: alreadyCached completes at once through
\* onComplete(true); any other reply leaves the component waiting for events.
StartDownloadReply ==
  /\ dlReply["modal"] \in {"started", "alreadyRunning", "alreadyCached"}
  /\ dlReply' = [dlReply EXCEPT !["modal"] = "none"]
  /\ IF dlReply["modal"] = "alreadyCached"
       THEN HandleDownloadComplete(TRUE)
       ELSE UNCHANGED tabVars
  /\ UNCHANGED <<sessionVars, workerVars, modelVars, timerVars, bridgeVars, uiVars, dlJobs, dlLock,
                 dlPc, dlModel, dlCancel, dlChunks, dlAfterCancel, dlSnapshot,
                 dlArg, dlCached, dlEvents>>

\* ModelDownloadProgress.handleComplete, the listener of download-complete:
\* success -> onComplete(true), cancelled -> onCancel(), otherwise
\* onComplete(false).  With no component mounted nobody listens.
HandleComplete ==
  /\ dlEvents # <<>>
  /\ dlEvents' = Tail(dlEvents)
  /\ IF progState = "unmounted"
       THEN UNCHANGED tabVars
       ELSE CASE Head(dlEvents)[2] = "success" -> HandleDownloadComplete(TRUE)
              [] Head(dlEvents)[2] = "cancelled" ->
                   CloseDownloadModal /\ UNCHANGED settingsModel
              [] OTHER -> HandleDownloadComplete(FALSE)
  /\ UNCHANGED <<sessionVars, workerVars, modelVars, timerVars, bridgeVars, uiVars, dlJobs, dlLock,
                 dlPc, dlModel, dlCancel, dlChunks, dlAfterCancel, dlSnapshot,
                 dlReply, dlArg, dlCached>>

\* ModelDownloadProgress.handleCancel (the Cancel button while downloading):
\* cancelModelDownload(); the state changes only with the complete event.
HandleCancel ==
  /\ progState = "downloading"
  /\ CancelJob
  /\ UNCHANGED <<sessionVars, workerVars, modelVars, timerVars, bridgeVars, uiVars, tabVars>>

\* ModelDownloadModal: the dialog asks to close (onOpenChange(false)), which
\* calls onCancel = handleDownloadCancel; no cancel is sent to the backend.
HandleDownloadCancel ==
  /\ downloadModalOpen
  /\ CloseDownloadModal
  /\ UNCHANGED <<settingsModel, sessionVars, workerVars, modelVars, timerVars, bridgeVars, uiVars,
                 dlVars>>

\* ------------------------------------------------------- specifications
DownloadNext ==
  \/ \E r \in Starters : StartEnter(r)
  \/ \E r \in Starters : StartCheck(r)
  \/ \E r \in Starters : StartSpawn(r)
  \/ \E r \in Starters : StartReturn(r)
  \/ Cancel
  \/ DlCheckCancel
  \/ DlFetchChunk
  \/ DlFetchFail
  \/ DlComplete
  \/ ClearModelCache
  \/ HandleComplete

SpecDownload == Init /\ [][DownloadNext]_vars

\* The settings page with its download modal and the download manager.
SettingsNext ==
  \/ \E m \in Models : HandleModelChange(m)
  \/ StartDownload
  \/ StartCheck("modal")
  \/ StartSpawn("modal")
  \/ StartDownloadReply
  \/ HandleComplete
  \/ HandleCancel
  \/ HandleDownloadCancel
  \/ DlCheckCancel
  \/ DlFetchChunk
  \/ DlFetchFail
  \/ DlComplete

SpecSettings == Init /\ [][SettingsNext]_vars

\* ----------------------------------------------------------- Event Bridge
\* The threads that produce state transitions and progress snapshots.
Threads == {"hotkey", "audio", "worker", "download", "timer"}

\* The signals each thread emits, as (presentation field, value).
Emits(t) ==
  CASE t = "hotkey" -> {<<"popup", "recording">>}
    [] t = "audio" -> {<<"amplitude", "level">>}
    [] t = "worker" -> {<<"popup", "loading">>, <<"popup", "processing">>,
                        <<"popup", "idle">>, <<"popup", "error">>}
    [] t = "download" -> {<<"download", "progress">>, <<"download", "complete">>}
    [] OTHER -> {<<"model", "unloaded">>}

\* A callback emits a signal instead of updating the UI: with a queued
\* connection the emission is queued for the main thread.
PostDirect(t, e) ==
  /\ presentation' = [presentation EXCEPT ![e[1]] = e[2]]
  /\ writer' = t
  /\ UNCHANGED signals
Post(t, e) ==
  /\ signals' = Append(signals, e)
  /\ UNCHANGED <<presentation, writer>>

\* A worker thread reports a transition or a snapshot.
Emit(t) ==
  /\ Len(signals) < MaxSignals
  /\ \E e \in Emits(t) : Post(t, e)
  /\ UNCHANGED <<sessionVars, workerVars, modelVars, timerVars, dlVars, tabVars,
                 uiVars>>

\* The slot runs on the main thread and updates the popup state.
Slot ==
  /\ signals # <<>>
  /\ presentation' = [presentation EXCEPT ![Head(signals)[1]] = Head(signals)[2]]
  /\ writer' = "main"
  /\ signals' = Tail(signals)
  /\ UNCHANGED <<sessionVars, workerVars, modelVars, timerVars, dlVars, tabVars,
                 uiVars>>

\* Popup: the indicators rendered for a value of its state (the tiny pill,
\* the amplitude bars, the three dots); every other value renders none.
Indicators(st) ==
  {i \in {"pill", "bars", "dots"} :
     \/ i = "pill" /\ st = "idle"
     \/ i = "bars" /\ st = "recording"
     \/ i = "dots" /\ st = "processing"}

BridgeNext ==
  \/ \E t \in Threads : Emit(t)
  \/ Slot

SpecBridge == Init /\ [][BridgeNext]_vars

\* ---------------------------------------------------------- HotkeyCapture
\* e.key of the keyboard events in the model.
Keys == {"Control", "Meta", "r", "Escape"}
MODIFIER_KEYS == {"ctrl", "shift", "alt", "win"}
restHotkey ==
  <<coreVars,
    bulkVars,
    appVars,
    saveVars,
    stepAudioVars,
    historyVars>>

\* normalizeKey: KEY_MAP[key] || key.toLowerCase().
normalizeKey(k) ==
  CASE k = "Control" -> "ctrl"
    [] k = "Shift" -> "shift"
    [] k = "Alt" -> "alt"
    [] k = "Meta" -> "win"
    [] k = " " -> "space"
    [] k = "Escape" -> "escape"
    [] OTHER -> k

IsModifier(k) == k \in MODIFIER_KEYS
IsMainKey(k) == k \notin MODIFIER_KEYS

\* new Set(prev).add(key) and next.delete(key), the Set kept in insertion order.
SetAdd(keys, k) ==
  IF \E i \in 1..Len(keys) : keys[i] = k THEN keys ELSE Append(keys, k)
SetDelete(keys, k) == SelectSeq(keys, LAMBDA x : x # k)

\* The button is clicked: capturing starts.
HotkeyClick ==
  /\ isCapturing' = TRUE
  /\ hkError' = "none"
  /\ pressedKeys' = <<>>
  /\ hkLast' = <<"click", "none">>
  /\ UNCHANGED <<hkValue, restHotkey>>

\* handleKeyDown: Escape cancels, every other key joins pressedKeys.
HandleKeyDown(k) ==
  /\ isCapturing
  /\ IF k = "Escape"
       THEN /\ isCapturing' = FALSE
            /\ pressedKeys' = <<>>
            /\ hkError' = "none"
       ELSE /\ pressedKeys' = SetAdd(pressedKeys, normalizeKey(k))
            /\ UNCHANGED <<isCapturing, hkError>>
  /\ hkLast' = <<"down", "none">>
  /\ UNCHANGED <<hkValue, restHotkey>>

\* handleKeyUp: with two or more keys held of which at least one is a
\* modifier and at least one is not, the combination is validated and passed
\* to onChange; otherwise the released key leaves pressedKeys.
HandleKeyUp(k) ==
  /\ isCapturing
  /\ LET mods == SelectSeq(pressedKeys, IsModifier)
         mainKeys == SelectSeq(pressedKeys, IsMainKey)
     IN IF Len(pressedKeys) >= 2 /\ Len(mods) > 0 /\ Len(mainKeys) > 0
          THEN \E v \in {"accepted", "invalid", "threw"} :
                 /\ hkLast' = <<"up", v>>
                 /\ pressedKeys' = <<>>
                 /\ IF v = "accepted"
                      THEN /\ hkError' = "none"
                           /\ hkValue' = mods \o mainKeys
                           /\ isCapturing' = FALSE
                      ELSE /\ hkError' = v
                           /\ UNCHANGED <<hkValue, isCapturing>>
          ELSE /\ pressedKeys' = SetDelete(pressedKeys, normalizeKey(k))
               /\ hkLast' = <<"up", "none">>
               /\ UNCHANGED <<isCapturing, hkError, hkValue>>
  /\ UNCHANGED restHotkey

\* A click outside the button cancels the capture.
HandleClickOutside ==
  /\ isCapturing
  /\ isCapturing' = FALSE
  /\ pressedKeys' = <<>>
  /\ hkError' = "none"
  /\ hkLast' = <<"outside", "none">>
  /\ UNCHANGED <<hkValue, restHotkey>>

HotkeyNext ==
  \/ HotkeyClick
  \/ \E k \in Keys : HandleKeyDown(k)
  \/ \E k \in Keys : HandleKeyUp(k)
  \/ HandleClickOutside

SpecHotkey == Init /\ [][HotkeyNext]_vars

\* ------------------------------------------------- bulk_delete_history
HistoryIds == {1, 2, 3}
\* Rows whose audio_relpath column is set.
WithAudioPath == {1, 2}
restBulk ==
  <<coreVars,
    hotkeyVars,
    appVars,
    saveVars,
    stepAudioVars,
    historyVars>>

\* The rows the SELECT returns that carry an audio path, in id order.
FetchedAudio(ids) == (historyRows \cap ids) \cap WithAudioPath

\* bulk_delete_history(history_ids): the empty list returns at once;
\* otherwise the audio files of the fetched rows are deleted one by one, then
\* the rows are deleted and the transaction committed.  An exception of a
\* file deletion or of the DELETE/commit rolls the transaction back and is
\* raised again; the files deleted so far stay deleted.
BulkDeleteHistory(ids) ==
  /\ bdIds' = ids
  /\ IF ids = {}
       THEN /\ bdResult' = "returned"
            /\ UNCHANGED <<historyRows, audioFiles>>
       ELSE \/ /\ audioFiles' = audioFiles \ FetchedAudio(ids)
               /\ historyRows' = historyRows \ ids
               /\ bdResult' = "returned"
            \/ /\ audioFiles' = audioFiles \ FetchedAudio(ids)
               /\ historyRows' = historyRows
               /\ bdResult' = "raisedByDelete"
            \/ \E f \in FetchedAudio(ids) :
                 /\ audioFiles' =
                      audioFiles \ {r \in FetchedAudio(ids) : r < f}
                 /\ historyRows' = historyRows
                 /\ bdResult' = "raisedByFile"
  /\ UNCHANGED restBulk

BulkNext == \E ids \in SUBSET HistoryIds : BulkDeleteHistory(ids)

SpecBulk == Init /\ [][BulkNext]_vars

\* ------------------------- App, Onboarding and ModelDownloadProgress
\* STEPS_CONFIG.length, and the index of the download step.
StepCount == 7
DownloadStep == 4
ModelStep == 3
restApp ==
  <<sessionVars,
    workerVars,
    modelVars,
    timerVars,
    bridgeVars,
    tabVars,
    hotkeyVars,
    bulkVars,
    saveVars,
    stepAudioVars,
    historyVars>>
progressVars == <<mdpState, hasStarted, startCalls, callbacks, cancelClicked>>

\* modelName of the mounted ModelDownloadProgress: Onboarding passes its
\* model, ModelRecoveryModal the model of the settings.
ModelName == IF route = "onboarding" THEN wizardModel ELSE settingsModel

\* The auto-start effect: autoStart && !hasStarted.current && state === "idle".
AutoStartFires(s, started) == ~started /\ s = "idle"

\* handleComplete: the state a download-complete event leads to.
CompleteStateLoose(result) ==
  IF result = "success" THEN "completed" ELSE "cancelled"
CompleteState(result) ==
  CASE result = "success" -> "completed"
    [] result = "cancelled" -> "cancelled"
    [] OTHER -> "error"

\* startDownload up to its await: api.startModelDownload(modelName) is sent
\* and reaches the download manager, or the call is going to be rejected.
SendStart ==
  /\ dlReply["modal"] = "none"
  /\ DlCanLock("modal")
  /\ \E rejected \in BOOLEAN :
       IF rejected
         THEN /\ dlReply' = [dlReply EXCEPT !["modal"] = "threw"]
              /\ UNCHANGED <<dlLock, dlArg>>
         ELSE /\ dlReply' = [dlReply EXCEPT !["modal"] = "entered"]
              /\ dlLock' = "modal"
              /\ dlArg' = [dlArg EXCEPT !["modal"] = ModelName]
  /\ UNCHANGED <<dlJobs, dlPc, dlModel, dlCancel, dlChunks, dlAfterCancel,
                 dlSnapshot, dlCached, dlEvents>>

\* The component mounts (state idle, hasStarted false) and its auto-start
\* effect runs startDownload: a new download attempt.
MountProgress ==
  /\ SendStart
  /\ mdpState' = "downloading"
  /\ hasStarted' = TRUE
  /\ startCalls' = 1
  /\ callbacks' = 0
  /\ cancelClicked' = FALSE

\* The component unmounts: its listeners are removed.
UnmountProgress ==
  /\ mdpState' = "unmounted"
  /\ hasStarted' = FALSE

\* setState(s) of the component; a no-op once it has unmounted.
SetState(s) ==
  /\ mdpState' = IF mdpState = "unmounted" THEN "unmounted" ELSE s
  /\ UNCHANGED hasStarted

\* The component moves to state s and calls its host: onComplete(true) for
\* completed, onComplete(false) for error, onCancel?.() for cancelled.
\* Onboarding: handleDownloadComplete clears isDownloading, and
\* handleDownloadCancel also goes back one step, which unmounts the
\* component.  ModelRecoveryModal: handleComplete(true) closes the modal; it
\* passes no onCancel.
Callback(s) ==
  IF route = "onboarding"
    THEN /\ isDownloading' = FALSE
         /\ callbacks' = Min(2, callbacks + 1)
         /\ IF s = "cancelled"
              THEN step' = step - 1 /\ UnmountProgress
              ELSE step' = step /\ SetState(s)
         /\ UNCHANGED modelMissing
    ELSE /\ callbacks' = IF s = "cancelled" THEN callbacks
                         ELSE Min(2, callbacks + 1)
         /\ IF s = "completed"
              THEN modelMissing' = FALSE /\ UnmountProgress
              ELSE UNCHANGED modelMissing /\ SetState(s)
         /\ UNCHANGED <<isDownloading, step>>

\* App.checkStartup: onboarding not complete -> the wizard; complete -> the
\* dashboard, with the recovery modal when getModelInfo reports the model of
\* the settings as not cached (a failing check shows nothing).
CheckStartup ==
  /\ route = "loading"
  /\ \E onboardingComplete \in BOOLEAN,
        info \in {"cached", "notCached", "failed"} :
       /\ info = "cached" => settingsModel \in dlCached
       /\ info = "notCached" => settingsModel \notin dlCached
       /\ route' = IF onboardingComplete THEN "dashboard" ELSE "onboarding"
       /\ IF onboardingComplete /\ info = "notCached"
            THEN modelMissing' = TRUE /\ MountProgress
            ELSE UNCHANGED <<modelMissing, progressVars, dlVars>>
  /\ UNCHANGED <<step, wizardModel, isDownloading, restApp>>

\* setStep(target) and the render that follows: leaving the download step
\* unmounts ModelDownloadProgress, entering it mounts a new one.
GoTo(target) ==
  /\ step' = target
  /\ IF step = DownloadStep /\ target # DownloadStep
       THEN /\ UnmountProgress
            /\ UNCHANGED <<startCalls, callbacks, cancelClicked, dlVars>>
       ELSE IF target = DownloadStep /\ step # DownloadStep
         THEN MountProgress
         ELSE UNCHANGED <<progressVars, dlVars>>
  /\ UNCHANGED <<route, modelMissing, wizardModel, isDownloading, restApp>>

\* Continue (nextStep); the button is disabled while saving || isDownloading.
NextStep ==
  /\ route = "onboarding"
  /\ ~isDownloading
  /\ step < StepCount - 1
  /\ GoTo(step + 1)

\* Back (prevStep); hidden on the first step, disabled while isDownloading.
PrevStep ==
  /\ route = "onboarding"
  /\ ~isDownloading
  /\ step > 0
  /\ GoTo(step - 1)

\* A progress dot: onClick={() => idx < step && setStep(idx)}.
ProgressDot(idx) ==
  /\ route = "onboarding"
  /\ idx < step
  /\ GoTo(idx)

\* The models offered in the model step of the wizard (two of MODEL_OPTIONS).
WizardModels == {"tiny", "base"}

\* StepModel: setModel(m).
SetModel(m) ==
  /\ route = "onboarding"
  /\ step = ModelStep
  /\ m # wizardModel
  /\ wizardModel' = m
  /\ UNCHANGED <<route, modelMissing, step, isDownloading, progressVars,
                 dlVars, restApp>>

\* startDownload after its await: alreadyCached -> completed and
\* onComplete(true); a rejected call -> error and onComplete(false); any
\* other reply leaves the component waiting for the events.
ProgressStartReply ==
  /\ dlReply["modal"] \in {"started", "alreadyRunning", "alreadyCached",
                           "threw"}
  /\ dlReply' = [dlReply EXCEPT !["modal"] = "none"]
  /\ CASE dlReply["modal"] = "alreadyCached" -> Callback("completed")
       [] dlReply["modal"] = "threw" -> Callback("error")
       [] OTHER -> UNCHANGED <<modelMissing, step, isDownloading, mdpState,
                               hasStarted, callbacks>>
  /\ UNCHANGED <<route, wizardModel, startCalls, cancelClicked, dlJobs,
                 dlLock, dlPc, dlModel, dlCancel, dlChunks, dlAfterCancel,
                 dlSnapshot, dlArg, dlCached, dlEvents, restApp>>

\* handleComplete, the download-complete listener of the mounted component;
\* it does not look at e.detail.model.  With nothing mounted nobody listens.
ProgressHandleComplete ==
  /\ dlEvents # <<>>
  /\ dlEvents' = Tail(dlEvents)
  /\ IF mdpState = "unmounted"
       THEN UNCHANGED <<modelMissing, step, isDownloading, mdpState,
                        hasStarted, callbacks>>
       ELSE Callback(CompleteState(Head(dlEvents)[2]))
  /\ UNCHANGED <<route, wizardModel, startCalls, cancelClicked, dlJobs,
                 dlLock, dlPc, dlModel, dlCancel, dlChunks, dlAfterCancel,
                 dlSnapshot, dlReply, dlArg, dlCached, restApp>>

\* handleCancel (Cancel Download): api.cancelModelDownload(), no setState.
ProgressHandleCancel ==
  /\ mdpState = "downloading"
  /\ cancelClicked' = TRUE
  /\ IF dlJobs > 0 /\ ~dlCancel THEN CancelJob ELSE UNCHANGED dlVars
  /\ UNCHANGED <<route, modelMissing, step, wizardModel, isDownloading,
                 mdpState, hasStarted, startCalls, callbacks, restApp>>

\* handleRetry (Try Again / Start Again): hasStarted.current = false,
\* setState("idle"), startDownload(): the state rendered next is
\* downloading, which the auto-start effect then sees.
HandleRetry ==
  /\ mdpState \in {"error", "cancelled"}
  /\ SendStart
  /\ mdpState' = "downloading"
  /\ hasStarted' = FALSE
  /\ startCalls' = 1 + (IF AutoStartFires("downloading", FALSE) THEN 1 ELSE 0)
  /\ callbacks' = 0
  /\ cancelClicked' = FALSE
  /\ UNCHANGED <<route, modelMissing, step, wizardModel, isDownloading,
                 restApp>>

AppNext ==
  \/ CheckStartup
  \/ NextStep
  \/ PrevStep
  \/ \E idx \in 0..(StepCount - 1) : ProgressDot(idx)
  \/ \E m \in WizardModels : SetModel(m)
  \/ StartCheck("modal")
  \/ StartSpawn("modal")
  \/ ProgressStartReply
  \/ ProgressHandleComplete
  \/ ProgressHandleCancel
  \/ HandleRetry
  \/ DlCheckCancel
  \/ DlFetchChunk
  \/ DlFetchFail
  \/ DlComplete

SpecApp == Init /\ [][AppNext]_vars

\* --------------------------- SettingsTab: updateSetting, handleDeviceChange
\* Most calls that await an RPC at the same time.
MaxCalls == 2
restSave ==
  <<coreVars,
    hotkeyVars,
    bulkVars,
    appVars,
    stepAudioVars,
    historyVars>>

\* updateSetting(key, value): the display is set to the settings of the
\* current render with the key replaced, and api.updateSettings({key: value})
\* is sent; the call keeps the settings of its render for the revert.
UpdateSetting(k, v) ==
  /\ k # "device"
  /\ Len(inflight) < MaxCalls
  /\ settings' = [settings EXCEPT ![k] = v]
  /\ inflight' = Append(inflight, [pc |-> "saving", key |-> k, value |-> v,
                                   snap |-> settings])
  /\ UNCHANGED <<backendSettings, restSave>>

\* handleDeviceChange(newDevice) up to its first await: validateDevice is sent.
HandleDeviceChange(v) ==
  /\ Len(inflight) < MaxCalls
  /\ inflight' = Append(inflight, [pc |-> "validating", key |-> "device",
                                   value |-> v, snap |-> settings])
  /\ UNCHANGED <<settings, backendSettings, restSave>>

\* validateDevice returns: an invalid device ends the call; a valid one sets
\* the display from the settings of the call's render and sends the update.
ValidateReply ==
  /\ inflight # <<>>
  /\ Head(inflight).pc = "validating"
  /\ \E valid \in BOOLEAN :
       IF valid
         THEN /\ settings' = [Head(inflight).snap EXCEPT
                                !["device"] = Head(inflight).value]
              /\ inflight' = Append(Tail(inflight),
                                    [Head(inflight) EXCEPT !.pc = "saving"])
         ELSE /\ inflight' = Tail(inflight)
              /\ UNCHANGED settings
  /\ UNCHANGED <<backendSettings, restSave>>

\* api.updateSettings returns.  saved: the backend has persisted the value.
\* failed: nothing is persisted and the catch reverts the display to the
\* settings of the call's render.  gpuInfoFailed (handleDeviceChange only):
\* the value is persisted, the following getGpuInfo throws inside the same
\* try, and the catch reverts the display.
UpdateReply ==
  /\ inflight # <<>>
  /\ Head(inflight).pc = "saving"
  /\ \E r \in {"saved", "failed", "gpuInfoFailed"} :
       /\ r = "gpuInfoFailed" => Head(inflight).key = "device"
       /\ backendSettings' =
            IF r = "failed" THEN backendSettings
            ELSE [backendSettings EXCEPT
                    ![Head(inflight).key] = Head(inflight).value]
       /\ settings' = IF r = "saved" THEN settings ELSE Head(inflight).snap
  /\ inflight' = Tail(inflight)
  /\ UNCHANGED restSave

SaveNext ==
  \/ \E k \in SettingKeys, v \in SettingValues : UpdateSetting(k, v)
  \/ \E v \in SettingValues : HandleDeviceChange(v)
  \/ ValidateReply
  \/ UpdateReply

SpecSave == Init /\ [][SaveNext]_vars

\* ------------------------------------------------- Onboarding: StepAudio
\* Most stopTestRecording calls of cleanups that await the backend.
MaxStops == 2
restStepAudio ==
  <<coreVars,
    hotkeyVars,
    bulkVars,
    appVars,
    saveVars,
    historyVars>>

\* Every RPC of the component has returned.
AudioSettled == startPc = "none" /\ devPc = "none" /\ stops = 0

\* start_test_recording / stop_test_recording as served by the backend.
TestRecordingAfter(rpc) == rpc = "start"

\* setIsListening(v); a no-op once the component has unmounted.
SetIsListening(v) == isListening' = IF audioMounted THEN v ELSE isListening

\* StepAudio mounts (the calls of an earlier instance have returned; the
\* stop of its cleanup may still be on its way): the effect arms the 100 ms
\* timer.
MountAudio ==
  /\ ~audioMounted
  /\ startPc = "none"
  /\ devPc = "none"
  /\ audioMounted' = TRUE
  /\ startTimer' = "armed"
  /\ UNCHANGED <<startPc, devPc, stops, testRecording, isListening,
                 restStepAudio>>

\* The timer fires: startRecording runs up to await api.updateSettings.
StartRecording ==
  /\ startTimer = "armed"
  /\ startTimer' = "none"
  /\ startPc' = "updating"
  /\ UNCHANGED <<audioMounted, devPc, stops, testRecording, isListening,
                 restStepAudio>>

\* startRecording: updateSettings returns; startTestRecording is sent next,
\* whether the component is still mounted or not; a failure ends the call.
StartUpdated ==
  /\ startPc = "updating"
  /\ \E ok \in BOOLEAN : startPc' = IF ok THEN "starting" ELSE "none"
  /\ UNCHANGED <<audioMounted, startTimer, devPc, stops, testRecording,
                 isListening, restStepAudio>>

\* startRecording: startTestRecording returns; isListening is set only if
\* the component is still mounted.
StartStarted ==
  /\ startPc = "starting"
  /\ startPc' = "none"
  /\ \E ok \in BOOLEAN :
       IF ok
         THEN /\ testRecording' = TestRecordingAfter("start")
              /\ SetIsListening(TRUE)
         ELSE UNCHANGED <<testRecording, isListening>>
  /\ UNCHANGED <<audioMounted, startTimer, devPc, stops, restStepAudio>>

\* handleDeviceChange up to its first await: stopTestRecording is sent.
AudioDeviceChange ==
  /\ audioMounted
  /\ devPc = "none"
  /\ devPc' = "stopping"
  /\ UNCHANGED <<audioMounted, startTimer, startPc, stops, testRecording,
                 isListening, restStepAudio>>

\* handleDeviceChange: the stop returns, updateSettings is sent.
DeviceStopped ==
  /\ devPc = "stopping"
  /\ devPc' = "updating"
  /\ testRecording' = TestRecordingAfter("stop")
  /\ UNCHANGED <<audioMounted, startTimer, startPc, stops, isListening,
                 restStepAudio>>

\* handleDeviceChange: updateSettings returns, startTestRecording is sent.
DeviceUpdated ==
  /\ devPc = "updating"
  /\ \E ok \in BOOLEAN : devPc' = IF ok THEN "starting" ELSE "none"
  /\ UNCHANGED <<audioMounted, startTimer, startPc, stops, testRecording,
                 isListening, restStepAudio>>

\* handleDeviceChange: startTestRecording returns.
DeviceStarted ==
  /\ devPc = "starting"
  /\ devPc' = "none"
  /\ \E ok \in BOOLEAN :
       IF ok
         THEN /\ testRecording' = TestRecordingAfter("start")
              /\ SetIsListening(TRUE)
         ELSE UNCHANGED <<testRecording, isListening>>
  /\ UNCHANGED <<audioMounted, startTimer, startPc, stops, restStepAudio>>

\* StepAudio unmounts: the cleanup clears the mounted flag and the timer and
\* sends stopTestRecording without awaiting it.
UnmountAudio ==
  /\ audioMounted
  /\ stops < MaxStops
  /\ audioMounted' = FALSE
  /\ startTimer' = "none"
  /\ stops' = stops + 1
  /\ isListening' = FALSE
  /\ UNCHANGED <<startPc, devPc, testRecording, restStepAudio>>

\* The backend serves the stopTestRecording of a cleanup.
CleanupStopped ==
  /\ stops > 0
  /\ stops' = stops - 1
  /\ testRecording' = TestRecordingAfter("stop")
  /\ UNCHANGED <<audioMounted, startTimer, startPc, devPc, isListening,
                 restStepAudio>>

StepAudioNext ==
  \/ MountAudio
  \/ StartRecording
  \/ StartUpdated
  \/ StartStarted
  \/ AudioDeviceChange
  \/ DeviceStopped
  \/ DeviceUpdated
  \/ DeviceStarted
  \/ UnmountAudio
  \/ CleanupStopped

SpecStepAudio == Init /\ [][StepAudioNext]_vars

\* ------------------------------------------- HistoryTab and HistoryPage
\* Search texts of the model; "" is the empty box (searchQuery || undefined).
Queries == {"", "a", "b"}
\* Most getHistory calls in flight at once.
MaxLoads == 2
restHistory ==
  <<coreVars,
    hotkeyVars,
    bulkVars,
    appVars,
    saveVars,
    stepAudioVars>>

\* The list getHistory returns for a query; distinct queries give distinct
\* lists, the empty query the unfiltered one.
ResultFor(q) == IF q = "" THEN "all" ELSE q

\* pendingLoads without its i-th call.
RemoveAt(s, i) == SubSeq(s, 1, i - 1) \o SubSeq(s, i + 1, Len(s))

\* The user edits the search box: the effect cleanup clears the timer and
\* the effect arms a new one.
SetSearch(q) ==
  /\ q # search
  /\ search' = q
  /\ debounce' = "armed"
  /\ UNCHANGED <<history, pendingLoads, loadFailed, restHistory>>

\* The timer fires after 500 ms without an edit: loadHistory(search).
DebounceFires ==
  /\ debounce = "armed"
  /\ Len(pendingLoads) < MaxLoads
  /\ debounce' = "none"
  /\ pendingLoads' = Append(pendingLoads, search)
  /\ UNCHANGED <<history, search, loadFailed, restHistory>>

\* A getHistory call returns, in any order: setHistory(data), or the catch.
LoadReturns(i) ==
  /\ i \in 1..Len(pendingLoads)
  /\ pendingLoads' = RemoveAt(pendingLoads, i)
  /\ \E ok \in BOOLEAN :
       IF ok
         THEN history' = ResultFor(pendingLoads[i]) /\ UNCHANGED loadFailed
         ELSE loadFailed' = TRUE /\ UNCHANGED history
  /\ UNCHANGED <<search, debounce, restHistory>>

HistoryNext ==
  \/ \E q \in Queries : SetSearch(q)
  \/ DebounceFires
  \/ \E i \in 1..MaxLoads : LoadReturns(i)

SpecHistory == Init /\ [][HistoryNext]_vars

\* ================================================================ claims

\* C1: at every reachable state at most one RecordingSession exists, under
\* any interleaving of onActivate, onDeactivate and the transcription worker.
C1_OneRecordingSession == sessions <= 1

\* A session is in flight with its worker inside the transcription.
C1_Witness == sessions = 1 /\ pc["session"] = "transcribing"

C3_NoUnloadDuringTranscription ==
  \A c \in Callers : pc[c] = "transcribing" => (evicting = {} /\ handles # {})

\* The idle timer callback is committed to unload while a transcription runs.
C3_Witness == \E c \in Callers : pc[c] = "transcribing" /\ fired > 0

\* C4: never two loads at once, and never a load together with an eviction.
C4_LoadsSerialize == Cardinality(loading) <= 1 /\ (loading # {} => evicting = {})

\* One caller is loading while the other one waits for the mutex.
C4_Witness ==
  \E c, d \in Callers : c # d /\ pc[c] = "loading" /\ pc[d] = "ensure"

\* C5: the idle timer never evicts a resident model earlier than the idle
\* timeout after the last completed transcription.
C5_NoEarlyEviction ==
  [][("timer" \in evicting /\ "timer" \notin evicting' /\ handles # {})
       => sinceUse >= IdleTimeout]_vars

\* C6: the idle timer is never pending while a model load or a transcription
\* is in progress.
C6_TimerIdleDuringUse ==
  timerLeft # NoTimer => (loading = {} /\ \A c \in Callers : pc[c] # "transcribing")

C10_NoSuccessAfterCancel == dlSnapshot = "success" => ~dlCancel

C12_LoadingSequence ==
  [][(pc["session"] = "finish" /\ pc'["session"] = "idle" /\ didLoad)
       => /\ events' = <<"Recording", "Loading", "Transcribing", "Idle">>
          /\ pastes = 1]_vars

\* C14: once ensureLoaded has returned in a session, Loading was emitted in
\* that session if and only if the worker performed a model load.
C14_LoadingIffLoad ==
  pc["session"] \in {"ready", "transcribing", "post", "finish"}
    => (didLoad <=> \E i \in 1..Len(events) : events[i] = "Loading")

C15_ShortDiscarded ==
  [][(capture /\ ~capture' /\ audio = "short")
       => /\ state = "Recording"
          /\ state' = "Idle"
          /\ sessions' = 0
          /\ events' = <<"Recording", "Idle">>
          /\ pc' = pc
          /\ pastes' = 0
          /\ saves' = 0
          /\ handles' = handles
          /\ loading' = loading
          /\ errorShown' = errorShown]_vars

\* A session was discarded: Recording, then Idle, and no error was shown.
C15_Witness ==
  state = "Idle" /\ events = <<"Recording", "Idle">> /\ ~errorShown

C17_ErrorToIdle ==
  [][/\ (pc["session"] \in Errors /\ pc'["session"] # pc["session"])
          => /\ pc'["session"] = "idle"
             /\ errorShown'
             /\ state' = "Idle"
             /\ sessions' = 0
     /\ (capture /\ ~capture' /\ audio = "failed")
          => /\ errorShown'
             /\ state' = "Idle"
             /\ sessions' = 0
             /\ pc' = pc
     /\ errorShown' => (state' = "Idle" /\ sessions' = 0 /\ ~capture')]_vars

\* A transcription failed and its error was shown; the controller is Idle.
C17_Witness ==
  /\ errorShown
  /\ state = "Idle"
  /\ events = <<"Recording", "Transcribing", "Idle">>

\* C20: whenever a model is resident and no load, transcription or unload
\* is in progress, its eviction is scheduled: the idle timer is pending or
\* its callback is on its way to unload().
C20_UnloadScheduled ==
  (handles # {} /\ evicting = {} /\ \A c \in Callers : pc[c] = "idle")
    => (timerLeft # NoTimer \/ fired > 0)

\* C19: a model whose download failed or was cancelled, and which is not in
\* the cache, is not the model setting; and the step that handles a failed
\* or cancelled download leaves the model setting as it was.
C19_FailedDownloadKeepsModel ==
  [][/\ (dlJobs' = 0 /\ dlSnapshot' \in {"error", "cancelled"}
          /\ dlModel' \notin dlCached')
          => settingsModel' # dlModel'
     /\ (dlEvents # <<>> /\ dlEvents' = Tail(dlEvents)
          /\ Head(dlEvents)[2] \in {"error", "cancelled"})
          => settingsModel' = settingsModel]_vars

C21_OneIndicator ==
  presentation.popup \in {"idle", "recording", "loading", "processing"}
    => Cardinality(Indicators(presentation.popup)) = 1

\* C22: a key release while exactly two modifier keys are held passes the
\* hotkey of those two modifiers to onChange, unless the validation rejects
\* it or fails.
C22_ModifierOnlyCombo ==
  [][(/\ isCapturing
      /\ Len(pressedKeys) = 2
      /\ \A i \in 1..2 : pressedKeys[i] \in MODIFIER_KEYS
      /\ hkLast'[1] = "up"
      /\ hkLast'[2] \notin {"invalid", "threw"})
       => (hkLast'[2] = "accepted" /\ hkValue' = pressedKeys)]_vars

\* C23: bulk_delete_history is all-or-nothing: a call that removes a row or
\* an audio file of the selection removes every selected row and every
\* audio file of the selection.
C23_AllOrNothing ==
  [][(historyRows' # historyRows \/ audioFiles' # audioFiles)
       => (historyRows' \cap bdIds' = {} /\ audioFiles' \cap bdIds' = {})]_vars

\* C24: in SettingsTab a step that changes the model setting changes it to
\* a model that is in the cache (getModelInfo reported it cached, or its own
\* download completed successfully).
C24_ModelSetOnlyIfCached ==
  [][settingsModel' # settingsModel => settingsModel' \in dlCached']_vars

\* C25: in every download attempt of ModelDownloadProgress (auto-start or
\* retry) the host callbacks onComplete(true), onComplete(false) and
\* onCancel() are invoked at most once in total, and startModelDownload is
\* called once.
C25_OneCallbackPerAttempt == callbacks <= 1 /\ startCalls <= 1

\* A step in which the mounted component handles a download-complete event.
C26_EventStep == dlEvents # <<>> /\ dlEvents' = Tail(dlEvents)

\* C26 as stated: a Cancel click leaves the state of ModelDownloadProgress
\* as it is; after the click the state leaves 'downloading' only in a step
\* that handles a download-complete event; and the state becomes
\* 'cancelled' only in a step that handles a complete event of a cancelled
\* download.
C26_CancelWaitsForEvent ==
  [][/\ (cancelClicked' /\ ~cancelClicked) => mdpState' = mdpState
     /\ (cancelClicked /\ mdpState = "downloading"
          /\ mdpState' \notin {"downloading", "unmounted"}) => C26_EventStep
     /\ (mdpState' = "cancelled" /\ mdpState # "cancelled")
          => (C26_EventStep /\ Head(dlEvents)[2] = "cancelled")]_vars

\* C26, amended: after the click the state leaves 'downloading' only in a
\* step that handles a download-complete event or in the step in which the
\* component's own startModelDownload call returns alreadyCached or is
\* rejected; the other two parts are as stated.
C26_CancelWaitsForEventOrReply ==
  [][/\ (cancelClicked' /\ ~cancelClicked) => mdpState' = mdpState
     /\ (cancelClicked /\ mdpState = "downloading"
          /\ mdpState' \notin {"downloading", "unmounted"})
          => \/ C26_EventStep
             \/ /\ dlReply["modal"] \in {"alreadyCached", "threw"}
                /\ dlReply'["modal"] = "none"
     /\ (mdpState' = "cancelled" /\ mdpState # "cancelled")
          => (C26_EventStep /\ Head(dlEvents)[2] = "cancelled")]_vars

\* Cancel was clicked and the complete event of the cancelled download has
\* put the component of the recovery modal into 'cancelled'.
C26_Witness ==
  mdpState = "cancelled" /\ cancelClicked /\ dlSnapshot = "cancelled"

\* C27: in the onboarding wizard, while the download of the download step
\* is in progress, a step that does not handle a download-complete event
\* leaves the step index as it is.
C27_StepFixedWhileDownloading ==
  [][(/\ route = "onboarding"
      /\ step = DownloadStep
      /\ mdpState = "downloading"
      /\ ~(dlEvents # <<>> /\ dlEvents' = Tail(dlEvents)))
       => step' = step]_vars

\* C28: once every updateSetting and handleDeviceChange call has settled,
\* the settings displayed by SettingsTab are the settings the backend has
\* persisted.
C28_DisplayedIsPersisted == inflight = <<>> => settings = backendSettings

\* C29: once StepAudio has unmounted and every RPC call it made has
\* returned, no test recording is active on the backend.
C29_NoRecordingAfterUnmount ==
  (~audioMounted /\ AudioSettled) => ~testRecording

\* C30: once the search text has been unchanged for 500 ms and every
\* getHistory call has returned (none of them failed), the list shown is the
\* result for the latest search text.
C30_LatestSearchShown ==
  (debounce = "none" /\ pendingLoads = <<>> /\ ~loadFailed)
    => history = ResultFor(search)

====
